---- MODULE Spec2Model ----
(***************************************************************************)
(* Model of src/index.js (mongodb_s3_backup): the sync pipeline            *)
(*   removeRF, removeRF, mongoDump, compressDirectory, sendToS3            *)
(* run by async.series, the post-run cleanup started by the completion     *)
(* callback, and the module-level domain d whose 'error' handler runs a    *)
(* second cleanup and rethrows.                                            *)
(*                                                                         *)
(* Every asynchronous completion (fs.exists callback, exec callback,       *)
(* child 'exit' event, upload callback, domain 'error' event) is one       *)
(* action; the action contains everything the handler does synchronously,  *)
(* including the start of the next task of the series.                     *)
(*                                                                         *)
(* Spec, FairSpec, LiveSpec: one call of sync.  SpecMulti: several calls   *)
(* sharing the domain d and the s3Config object.  SpecRemove: removeRF     *)
(* called directly, several times in a row.  SpecArgs: the argument list   *)
(* mongoDump builds for an options object.                                 *)
(***************************************************************************)
EXTENDS Integers, Sequences, FiniteSets, TLC

\* ---------------------------------------------------------------- bounds
NumJobs == 2
MaxExitCode == 2
MaxFaults == 1
MaxCalls == 2
MaxExclude == 3

\* the value of `code` in the 'exit' handler when the child was killed by a
\* signal (JavaScript null)
NullCode == -1

Jobs == 1..NumJobs
\* the calls of sync made under Spec: one job
SingleJob == {1}
ExitCodes == NullCode..MaxExitCode

\* ---------------------------------------------------------------- values
Err(src, code) == [src |-> src, code |-> code]
\* JavaScript null / undefined as the err argument of a callback
NoErr == Err("null", 0)
\* errors the storage client passes to the upload callback
ClientErrs == {Err("s3 AccessDenied", 403), Err("s3 InternalError", 500)}
\* errors raised inside the domain, outside any callback argument
LateErrs == {Err("EPIPE", 0), Err("ECONNRESET", 0)}
\* the error exec passes to its callback when rm exits non-zero
RmErr(p) == Err("Command failed: rm -rf", p[2])

\* path.join(tmpDir, mongodbConfig.db): every job of the model dumps the same
\* database, so the scratch subdirectory is shared between jobs
BackupDir(j) == <<"backupDir", 0>>
\* path.join(tmpDir, archiveName): the name carries the call's timestamp
ArchivePath(j) == <<"archive", j>>
\* tmpDirCleanupFns[i] removes this path
CleanupTarget(j, i) == IF i = 1 THEN BackupDir(j) ELSE ArchivePath(j)
AllPaths == {BackupDir(j) : j \in Jobs} \cup {ArchivePath(j) : j \in Jobs}

\* s3Config.destination: absent, or a prefix given by the caller
Destinations == {"absent", "backups/"}

\* JavaScript undefined as the value of an option that was not given
Undefined == "undefined"
\* JavaScript truthiness of a string-valued option: undefined and '' are falsy
Truthy(x) == x \notin {Undefined, ""}

Hosts == {"localhost", "db1.internal"}
Ports == {"27017"}
Dbs == {"mydb"}
Usernames == {Undefined, "", "alice"}
Passwords == {Undefined, "", "s3cret"}
AuthDbs == {Undefined, "admin"}
Collections == {"a", "b", "c"}
\* options.excludeCollection: not given, or an array (any array is truthy)
ExcludeLists ==
  {[given |-> FALSE, list |-> << >>]} \cup
  {[given |-> TRUE, list |-> l] :
     l \in UNION {[1..n -> Collections] : n \in 0..MaxExclude}}
\* the options objects mongoDump is called with
MongoOptionSets ==
  [host : Hosts, port : Ports, db : Dbs, username : Usernames,
   password : Passwords, authenticationDatabase : AuthDbs,
   excludeCollection : ExcludeLists]
\* tmpDir of sync, the directory argument of mongoDump
TmpDir == "/tmp/mongodb_s3_backup"

VARIABLES
  pc,          \* pc[j]: the task of the main series that is pending
  seriesErr,   \* seriesErr[j]: err the completion callback was called with
  preErr,      \* preErr[j]: err of the pre-run removeRF that failed
  post,        \* post[j]: position of the post-run cleanup series
  postErr,     \* postErr[j]: err the post-run cleanup series ended with
  postStarts,  \* postStarts[j]: times the post-run cleanup was started
  bnd,         \* bnd[j]: cleanup passes started by job j's domain handler
  starts,      \* starts[j][s]: times stage s was started
  exits,       \* exits[j][s]: 'exit' events of stage s's process
  stageCbs,    \* stageCbs[j][s]: times stage s called its callback
  exitCode,    \* exitCode[j][s]: code of the last 'exit' event
  stageErr,    \* stageErr[j][s]: argument of the last stage callback
  cbCount,     \* cbCount[j]: times the job callback was invoked
  cbArg,       \* cbArg[j]: argument of the job callback
  faults,      \* faults[j]: pc[j] at each late fault of job j's upload
  handlers,    \* jobs whose sync call registered a d.on('error') listener
  fs,          \* paths that exist
  s3dest,      \* s3Config.destination of the shared config object
  usedDest,    \* usedDest[j]: destination prefix job j uploads under
  errlog,      \* values logged with tag 'error'
  crashed,     \* an exception was thrown out of a callback: process is gone
  thrown,      \* the value thrown
  rf,          \* consecutive direct calls of removeRF on one target
  opts,        \* the options object handed to mongoDump
  argv         \* mongoOptions as handed to spawn('mongodump', ...)

\* the state of the calls of sync
jobVars == <<pc, seriesErr, preErr, post, postErr, postStarts, bnd, starts,
             exits, stageCbs, exitCode, stageErr, cbCount, cbArg, faults,
             handlers, s3dest, usedDest, errlog, crashed, thrown>>
\* the state of the direct calls of removeRF and mongoDump
callVars == <<rf, opts, argv>>

vars == <<jobVars, fs, callVars>>

Stages == {"dump", "compress", "upload"}
SeriesPos == {"idle", "e1", "r1", "e2", "r2", "dump", "compress", "upload",
              "finished"}
CleanPos == {"none", "e1", "r1", "e2", "r2", "done"}
Running(p) == p \in {"e1", "r1", "e2", "r2"}

TypeOK ==
  /\ pc \in [Jobs -> SeriesPos]
  /\ post \in [Jobs -> CleanPos]
  /\ postStarts \in [Jobs -> Nat]
  /\ \A j \in Jobs : \A k \in 1..Len(bnd[j]) :
        bnd[j][k].err \in LateErrs /\ bnd[j][k].st \in CleanPos
  /\ cbCount \in [Jobs -> Nat]
  /\ handlers \subseteq Jobs
  /\ fs \subseteq AllPaths
  /\ s3dest \in Destinations
  /\ crashed \in BOOLEAN

\* no call of sync has been made
JobsIdle ==
  /\ pc = [j \in Jobs |-> "idle"]
  /\ seriesErr = [j \in Jobs |-> NoErr]
  /\ preErr = [j \in Jobs |-> NoErr]
  /\ post = [j \in Jobs |-> "none"]
  /\ postErr = [j \in Jobs |-> NoErr]
  /\ postStarts = [j \in Jobs |-> 0]
  /\ bnd = [j \in Jobs |-> << >>]
  /\ starts = [j \in Jobs |-> [s \in Stages |-> 0]]
  /\ exits = [j \in Jobs |-> [s \in Stages |-> 0]]
  /\ stageCbs = [j \in Jobs |-> [s \in Stages |-> 0]]
  /\ exitCode = [j \in Jobs |-> [s \in Stages |-> 0]]
  /\ stageErr = [j \in Jobs |-> [s \in Stages |-> NoErr]]
  /\ cbCount = [j \in Jobs |-> 0]
  /\ cbArg = [j \in Jobs |-> NoErr]
  /\ faults = [j \in Jobs |-> << >>]
  /\ handlers = {}
  /\ usedDest = [j \in Jobs |-> "unset"]
  /\ errlog = {}
  /\ crashed = FALSE
  /\ thrown = NoErr

\* removeRF has not been called on `target`
RfIdle(target) ==
  [target |-> target, ph |-> "idle", existed |-> << >>, cmds |-> << >>,
   res |-> << >>, fsAfter |-> << >>]

\* the options of a call of mongoDump that has not been made
SomeOptions == CHOOSE o \in MongoOptionSets : TRUE

\* no direct call of removeRF or mongoDump is made
CallsIdle ==
  /\ rf = RfIdle(BackupDir(1))
  /\ opts = SomeOptions
  /\ argv = << >>

Init ==
  /\ JobsIdle
  /\ fs \in SUBSET AllPaths
  /\ s3dest \in Destinations
  /\ CallsIdle


\* ------------------------------------------------------- shared helpers
seriesVars == <<pc, seriesErr, post, postStarts, errlog, starts, s3dest,
                usedDest>>
procVars == <<exits, stageCbs, exitCode, stageErr>>

Idx(p) == IF p \in {"e1", "r1"} THEN 1 ELSE 2

\* the position after tmpDirCleanupFns[i] called back without error; `last`
\* is what follows the second function in the series at hand
NextFn(i, last) == IF i = 1 THEN "e2" ELSE last

\* bug variant: no existence check, rm -rf is always issued
NeedsRmAlways(p) == TRUE

\* removeRF lines 68-71: exec is reached only when fs.exists reports the
\* target as existing
NeedsRm(p) == p \in fs

\* removeRF, fs.exists callback (lines 68-74): a missing target calls back
\* with null at once, an existing one is handed to exec('rm -rf ...')
AfterExists(j, i, last) ==
  IF NeedsRm(CleanupTarget(j, i))
  THEN (IF i = 1 THEN "r1" ELSE "r2")
  ELSE NextFn(i, last)

\* async.series(tmpDirCleanupFns, cb), exec callback of function i: an error
\* ends the series at once, success goes on to the next function
AfterRm(i, err) == IF err # NoErr THEN "done" ELSE NextFn(i, "done")

\* what exec passes to removeRF's callback
RmResult(p, ok) == IF ok THEN NoErr ELSE RmErr(p)

\* bug variant: `rm -f`, which removes a file but leaves a directory
RmEffectFilesOnly(p, ok) ==
  IF ok /\ p[1] = "archive" THEN fs \ {p} ELSE fs

\* the filesystem after `rm -rf p` exited: with status 0 the path is gone
RmEffect(p, ok) == IF ok THEN fs \ {p} ELSE fs

\* bug variant: `if (!code)`, which takes a null code for success
ExitErrorFalsy(text, code) ==
  IF code = 0 \/ code = NullCode THEN NoErr ELSE Err(text, code)

\* 'exit' handler of mongodump / tar: callback(null) for code === 0, else
\* callback(new Error(text + code))
ExitError(text, code) == IF code = 0 THEN NoErr ELSE Err(text, code)

\* sendToS3 lines 194-200: destination = options.destination || '/', then
\* delete options.destination
DestinationOf(d) == IF d = "absent" THEN "/" ELSE d

\* bug variant: the cleanup is started in the error branch only
CompletionCleanOnError(j, err) ==
  /\ pc' = [pc EXCEPT ![j] = "finished"]
  /\ seriesErr' = [seriesErr EXCEPT ![j] = err]
  /\ errlog' = IF err # NoErr THEN errlog \cup {err} ELSE errlog
  /\ post' = IF err # NoErr THEN [post EXCEPT ![j] = "e1"] ELSE post
  /\ postStarts' = IF err # NoErr THEN [postStarts EXCEPT ![j] = @ + 1]
                   ELSE postStarts
  /\ UNCHANGED <<starts, s3dest, usedDest>>

\* completion callback of the main series, lines 253-263: log, then start
\* the post-run cleanup series (its first fs.exists is issued)
Completion(j, err) ==
  /\ pc' = [pc EXCEPT ![j] = "finished"]
  /\ seriesErr' = [seriesErr EXCEPT ![j] = err]
  /\ errlog' = IF err # NoErr THEN errlog \cup {err} ELSE errlog
  /\ post' = [post EXCEPT ![j] = "e1"]
  /\ postStarts' = [postStarts EXCEPT ![j] = @ + 1]
  /\ UNCHANGED <<starts, s3dest, usedDest>>

\* async.series starts the task at position nxt
StartTask(j, nxt) ==
  /\ pc' = [pc EXCEPT ![j] = nxt]
  /\ starts' = IF nxt \in Stages THEN [starts EXCEPT ![j][nxt] = @ + 1]
               ELSE starts
  /\ s3dest' = IF nxt = "upload" THEN "absent" ELSE s3dest
  /\ usedDest' = IF nxt = "upload"
                 THEN [usedDest EXCEPT ![j] = DestinationOf(s3dest)]
                 ELSE usedDest
  /\ UNCHANGED <<seriesErr, post, postStarts, errlog>>

\* bug variant: the series goes on to the next task whatever err is
TaskDoneIgnoreErr(j, err, nxt) ==
  IF nxt = "finished"
  THEN Completion(j, err)
  ELSE StartTask(j, nxt)

\* bug variant: a stage that failed is started once more before giving up
TaskDoneRetry(j, err, nxt) ==
  IF err # NoErr /\ pc[j] \in Stages /\ starts[j][pc[j]] < 2
  THEN StartTask(j, pc[j])
  ELSE IF err # NoErr \/ nxt = "finished"
  THEN Completion(j, err)
  ELSE StartTask(j, nxt)

\* async.series, callback of a task of the main series: an error, or the end
\* of the list, calls the completion callback; otherwise the next task starts
TaskDone(j, err, nxt) ==
  IF err # NoErr \/ nxt = "finished"
  THEN Completion(j, err)
  ELSE StartTask(j, nxt)

\* ------------------------------------------------------------- actions
\* sync(mongodbConfig, s3Config, callback): the series is started (its first
\* task issues fs.exists) and a listener is added to the domain d
Sync(j) ==
  /\ ~crashed
  /\ UNCHANGED callVars
  /\ pc[j] = "idle"
  /\ pc' = [pc EXCEPT ![j] = "e1"]
  /\ handlers' = handlers \cup {j}
  /\ UNCHANGED <<seriesErr, preErr, post, postErr, postStarts, bnd, starts,
                 procVars, cbCount, cbArg, faults, fs, s3dest, usedDest, errlog, crashed, thrown>>

\* pre-run removeRF: fs.exists callback
PreExists(j) ==
  /\ ~crashed
  /\ UNCHANGED callVars
  /\ pc[j] \in {"e1", "e2"}
  /\ LET i == Idx(pc[j])
         nxt == AfterExists(j, i, "dump")
     IN IF nxt \in {"r1", "r2"}
        THEN /\ pc' = [pc EXCEPT ![j] = nxt]
             /\ UNCHANGED <<seriesErr, post, postStarts, errlog, starts,
                            s3dest, usedDest>>
        ELSE TaskDone(j, NoErr, nxt)
  /\ UNCHANGED <<preErr, postErr, bnd, procVars, cbCount, cbArg, faults,
                 handlers, fs, crashed, thrown>>

\* pre-run removeRF: exec callback
PreRm(j) ==
  /\ ~crashed
  /\ UNCHANGED callVars
  /\ pc[j] \in {"r1", "r2"}
  /\ \E ok \in BOOLEAN :
       LET i == Idx(pc[j])
           p == CleanupTarget(j, i)
       IN /\ fs' = RmEffect(p, ok)
          /\ preErr' = [preErr EXCEPT ![j] = RmResult(p, ok)]
          /\ TaskDone(j, RmResult(p, ok), NextFn(i, "dump"))
  /\ UNCHANGED <<postErr, bnd, procVars, cbCount, cbArg, faults, handlers,
                 crashed, thrown>>

\* the stage's process exited with `code`; its handler calls the stage
\* callback once with ExitError
ProcExit(j, s, text, code) ==
  /\ exits' = [exits EXCEPT ![j][s] = @ + 1]
  /\ exitCode' = [exitCode EXCEPT ![j][s] = code]
  /\ stageCbs' = [stageCbs EXCEPT ![j][s] = @ + 1]
  /\ stageErr' = [stageErr EXCEPT ![j][s] = ExitError(text, code)]

\* mongodump 'exit' event, lines 129-136
DumpExit(j) ==
  /\ ~crashed
  /\ UNCHANGED callVars
  /\ pc[j] = "dump"
  /\ \E code \in ExitCodes, wrote \in BOOLEAN :
       /\ code = 0 => wrote
       /\ fs' = IF wrote THEN fs \cup {BackupDir(j)} ELSE fs
       /\ ProcExit(j, "dump", "Mongodump exited with code ", code)
       /\ TaskDone(j, ExitError("Mongodump exited with code ", code),
                   "compress")
  /\ UNCHANGED <<preErr, postErr, bnd, cbCount, cbArg, faults, handlers,
                 crashed, thrown>>

\* tar 'exit' event, lines 168-175
CompressExit(j) ==
  /\ ~crashed
  /\ UNCHANGED callVars
  /\ pc[j] = "compress"
  /\ \E code \in ExitCodes, wrote \in BOOLEAN :
       /\ code = 0 => wrote
       /\ fs' = IF wrote THEN fs \cup {ArchivePath(j)} ELSE fs
       /\ ProcExit(j, "compress", "Tar exited with code ", code)
       /\ TaskDone(j, ExitError("Tar exited with code ", code), "upload")
  /\ UNCHANGED <<preErr, postErr, bnd, cbCount, cbArg, faults, handlers,
                 crashed, thrown>>

\* callback of MultiPartUpload, lines 214-222: the client's err is passed on
UploadCallback(j) ==
  /\ ~crashed
  /\ UNCHANGED callVars
  /\ pc[j] = "upload"
  /\ \E e \in {NoErr} \cup ClientErrs :
       /\ stageCbs' = [stageCbs EXCEPT ![j]["upload"] = @ + 1]
       /\ stageErr' = [stageErr EXCEPT ![j]["upload"] = e]
       /\ TaskDone(j, e, "finished")
  /\ UNCHANGED <<preErr, postErr, bnd, exits, exitCode, cbCount, cbArg,
                 faults, handlers, fs, crashed, thrown>>

\* bug variant: the job callback is invoked in the error case only
JobCallbackOnErrorOnly(j, cerr) ==
  IF seriesErr[j] # NoErr
  THEN /\ cbCount' = [cbCount EXCEPT ![j] = @ + 1]
       /\ cbArg' = [cbArg EXCEPT ![j] = seriesErr[j]]
  ELSE UNCHANGED <<cbCount, cbArg>>

\* bug variant: function(cleanupErr) { callback(cleanupErr || err) }
JobCallbackCleanupErr(j, cerr) ==
  /\ cbCount' = [cbCount EXCEPT ![j] = @ + 1]
  /\ cbArg' = [cbArg EXCEPT ![j] = IF cerr # NoErr THEN cerr ELSE seriesErr[j]]

\* the callback of the post-run cleanup series, lines 260-262: the job
\* callback gets the err of the main series
\* cerr is what the cleanup series ended with; the callback function takes no
\* parameter and passes on the err of the main series
JobCallback(j, cerr) ==
  /\ cbCount' = [cbCount EXCEPT ![j] = @ + 1]
  /\ cbArg' = [cbArg EXCEPT ![j] = seriesErr[j]]

\* post-run removeRF: fs.exists callback
PostExists(j) ==
  /\ ~crashed
  /\ UNCHANGED callVars
  /\ post[j] \in {"e1", "e2"}
  /\ LET nxt == AfterExists(j, Idx(post[j]), "done")
     IN /\ post' = [post EXCEPT ![j] = nxt]
        /\ IF nxt = "done" THEN JobCallback(j, NoErr)
           ELSE UNCHANGED <<cbCount, cbArg>>
  /\ UNCHANGED <<pc, seriesErr, preErr, postErr, postStarts, bnd, starts, procVars, faults,
                 handlers, fs, s3dest, usedDest, errlog, crashed, thrown>>

\* post-run removeRF: exec callback
PostRm(j) ==
  /\ ~crashed
  /\ UNCHANGED callVars
  /\ post[j] \in {"r1", "r2"}
  /\ \E ok \in BOOLEAN :
       LET i == Idx(post[j])
           p == CleanupTarget(j, i)
           nxt == AfterRm(i, RmResult(p, ok))
       IN /\ fs' = RmEffect(p, ok)
          /\ post' = [post EXCEPT ![j] = nxt]
          /\ postErr' = [postErr EXCEPT ![j] = RmResult(p, ok)]
          /\ IF nxt = "done" THEN JobCallback(j, RmResult(p, ok))
             ELSE UNCHANGED <<cbCount, cbArg>>
  /\ UNCHANGED <<pc, seriesErr, preErr, postStarts, bnd, starts, procVars, faults,
                 handlers, s3dest, usedDest, errlog, crashed, thrown>>

\* d.on('error') listener of job h, lines 266-271, called with e: d.exit()
\* and the start of a cleanup series (its first fs.exists is issued)
HandlerStart(b, e) == Append(b, [err |-> e, st |-> "e1"])

\* bug variant: the listener throws before the cleanup series has run
LateFaultThrowFirst(j) ==
  /\ ~crashed
  /\ UNCHANGED callVars
  /\ starts[j]["upload"] > 0
  /\ Len(faults[j]) < MaxFaults
  /\ \E e \in LateErrs :
       /\ bnd' = [h \in Jobs |->
                   IF h \in handlers THEN HandlerStart(bnd[h], e) ELSE bnd[h]]
       /\ crashed' = TRUE
       /\ thrown' = e
  /\ faults' = [faults EXCEPT ![j] = Append(@, pc[j])]
  /\ UNCHANGED <<seriesVars, preErr, postErr, procVars, cbCount, cbArg,
                 handlers, fs>>

\* an error surfaces inside the domain d while or after job j's sendToS3 ran
\* in it: 'error' is emitted on d and every registered listener is called
LateFault(j) ==
  /\ ~crashed
  /\ UNCHANGED callVars
  /\ starts[j]["upload"] > 0
  /\ Len(faults[j]) < MaxFaults
  /\ \E e \in LateErrs :
       bnd' = [h \in Jobs |->
                 IF h \in handlers THEN HandlerStart(bnd[h], e) ELSE bnd[h]]
  /\ faults' = [faults EXCEPT ![j] = Append(@, pc[j])]
  /\ UNCHANGED <<seriesVars, preErr, postErr, procVars, cbCount, cbArg,
                 handlers, fs, crashed, thrown>>

\* the callback of the handler's cleanup series, line 269: throw(err) outside
\* the domain, an uncaught exception
Rethrow(e) ==
  /\ crashed' = TRUE
  /\ thrown' = e

\* boundary removeRF of pass k: fs.exists callback
BoundaryExists(j, k) ==
  /\ ~crashed
  /\ UNCHANGED callVars
  /\ k \in 1..Len(bnd[j])
  /\ bnd[j][k].st \in {"e1", "e2"}
  /\ LET nxt == AfterExists(j, Idx(bnd[j][k].st), "done")
     IN /\ bnd' = [bnd EXCEPT ![j][k].st = nxt]
        /\ IF nxt = "done" THEN Rethrow(bnd[j][k].err)
           ELSE UNCHANGED <<crashed, thrown>>
  /\ UNCHANGED <<seriesVars, preErr, postErr, procVars, cbCount, cbArg,
                 faults, handlers, fs>>

\* boundary removeRF of pass k: exec callback
BoundaryRm(j, k) ==
  /\ ~crashed
  /\ UNCHANGED callVars
  /\ k \in 1..Len(bnd[j])
  /\ bnd[j][k].st \in {"r1", "r2"}
  /\ \E ok \in BOOLEAN :
       LET i == Idx(bnd[j][k].st)
           p == CleanupTarget(j, i)
           nxt == AfterRm(i, RmResult(p, ok))
       IN /\ fs' = RmEffect(p, ok)
          /\ bnd' = [bnd EXCEPT ![j][k].st = nxt]
          /\ IF nxt = "done" THEN Rethrow(bnd[j][k].err)
             ELSE UNCHANGED <<crashed, thrown>>
  /\ UNCHANGED <<seriesVars, preErr, postErr, procVars, cbCount, cbArg,
                 faults, handlers>>

\* ------------------------------------------------------- specifications
Step(j) ==
  \/ Sync(j)
  \/ PreExists(j)
  \/ PreRm(j)
  \/ DumpExit(j)
  \/ CompressExit(j)
  \/ UploadCallback(j)
  \/ PostExists(j)
  \/ PostRm(j)
  \/ LateFault(j)
  \/ \E k \in 1..(NumJobs * MaxFaults) : BoundaryExists(j, k)
  \/ \E k \in 1..(NumJobs * MaxFaults) : BoundaryRm(j, k)

\* one call of sync in the process
Next == \E j \in SingleJob : Step(j)

Spec == Init /\ [][Next]_vars

\* every pending fs.exists / exec callback and child exit is delivered
Cleaning(j) ==
  \/ PreExists(j) \/ PreRm(j) \/ PostExists(j) \/ PostRm(j)
  \/ \E k \in 1..(NumJobs * MaxFaults) : BoundaryExists(j, k)
  \/ \E k \in 1..(NumJobs * MaxFaults) : BoundaryRm(j, k)

FairSpec == Spec /\ \A j \in SingleJob : WF_vars(Cleaning(j))

\* ---------------------------------------------------------- properties
NoLateFault == \A h \in Jobs : faults[h] = << >>

\* cleanup passes over job j's CleanupSet started after the main series:
\* the post-run cleanup and the passes of the domain listener
CleanupStarts(j) == postStarts[j] + Len(bnd[j])

BoundaryRunning(j) == \E k \in 1..Len(bnd[j]) : Running(bnd[j][k].st)

Resolved(j, s) == stageCbs[j][s] > 0
Succeeded(j, s) == Resolved(j, s) /\ stageErr[j][s] = NoErr
Failed(j, s) == Resolved(j, s) /\ stageErr[j][s] # NoErr
AllSucceeded(j) == \A s \in Stages : Succeeded(j, s)

\* the err of the first task of the main series that failed
FirstErr(j) ==
  IF preErr[j] # NoErr THEN preErr[j]
  ELSE IF stageErr[j]["dump"] # NoErr THEN stageErr[j]["dump"]
  ELSE IF stageErr[j]["compress"] # NoErr THEN stageErr[j]["compress"]
  ELSE stageErr[j]["upload"]

\* C1: with no late fault, the post-run removal of the CleanupSet is never
\* started twice, and once the main series has ended (all stages succeeded,
\* or one failed) and whenever the job callback has been invoked, it has been
\* started exactly once.
C1_PostCleanStartedOnce ==
  \A j \in Jobs :
    NoLateFault =>
      /\ CleanupStarts(j) <= 1
      /\ (pc[j] = "finished" \/ cbCount[j] > 0) => CleanupStarts(j) = 1

C1_Witness ==
  /\ NoLateFault
  /\ cbCount[1] = 1
  /\ Failed(1, "upload")
  /\ CleanupStarts(1) = 1

\* C2: a job that experienced a late fault has had its CleanupSet removal
\* started exactly once in total (post-run cleanup plus listener cleanup).
C2_LateFaultCleanupOnce ==
  \A j \in Jobs : faults[j] # << >> => CleanupStarts(j) = 1

\* C3: the cleanup started by the domain listener is never in progress while
\* the post-run cleanup of the same job is in progress.
C3_NoOverlappingCleanup ==
  \A j \in Jobs : ~(Running(post[j]) /\ BoundaryRunning(j))

\* C4: Compress is started only after Dump succeeded, Upload only after
\* Compress succeeded; after a failed stage no later stage is started; a
\* stage that succeeded has had its successor started.
C4_StageOrder ==
  \A j \in Jobs :
    /\ starts[j]["compress"] > 0 => Succeeded(j, "dump")
    /\ starts[j]["upload"] > 0 => Succeeded(j, "compress")
    /\ Failed(j, "dump") =>
         starts[j]["compress"] = 0 /\ starts[j]["upload"] = 0
    /\ Failed(j, "compress") => starts[j]["upload"] = 0
    /\ Succeeded(j, "dump") => starts[j]["compress"] > 0
    /\ Succeeded(j, "compress") => starts[j]["upload"] > 0
    /\ \A s \in Stages : Resolved(j, s) => starts[j][s] > 0

C4_Witness ==
  /\ Succeeded(1, "dump")
  /\ Succeeded(1, "compress")
  /\ Resolved(1, "upload")
  /\ \A s \in Stages : starts[1][s] = 1

\* the domain listener has rethrown: some listener pass of some job has run
\* its cleanup series to its callback, and the value thrown is that pass's
\* late fault
EscalatedAfterCleanup ==
  crashed =>
    \E j \in Jobs : \E k \in 1..Len(bnd[j]) :
      bnd[j][k].st = "done" /\ bnd[j][k].err = thrown /\ thrown \in LateErrs

\* C5: an error that reaches the domain listener is rethrown only after the
\* listener's cleanup series has run to its callback; it is never the err of
\* the job callback; it never makes a stage start again; and it is not
\* dropped: once a late fault has been raised the process ends with a late
\* fault thrown.
C5_BoundaryCleanupThenEscalate ==
  /\ [](EscalatedAfterCleanup)
  /\ [](\A j \in Jobs : cbArg[j] \notin LateErrs)
  /\ [](\A j \in Jobs : \A s \in Stages : starts[j][s] <= 1)
  /\ \A j \in SingleJob : (faults[j] # << >>) ~> crashed

\* the late fault arrived after Upload's success callback and after the job
\* callback reported success
C5_Witness ==
  /\ crashed
  /\ thrown \in LateErrs
  /\ faults[1] = <<"finished">>
  /\ Succeeded(1, "upload")
  /\ cbCount[1] = 1
  /\ cbArg[1] = NoErr

\* C6: the job callback is invoked only after the post-run cleanup series has
\* ended, with the err of the first failing task of the main series
\* unchanged, and with no error when Dump, Compress and Upload all
\* succeeded; an error of the post-run cleanup never takes its place.
C6_CallbackReportsStageError ==
  \A j \in Jobs :
    cbCount[j] > 0 =>
      /\ post[j] = "done"
      /\ cbArg[j] = FirstErr(j)
      /\ AllSucceeded(j) => cbArg[j] = NoErr
      /\ Failed(j, "upload") => cbArg[j] \in ClientErrs

\* Upload failed and the post-run cleanup failed too
C6_Witness ==
  /\ cbCount[1] = 1
  /\ Failed(1, "upload")
  /\ postErr[1] # NoErr
  /\ cbArg[1] = stageErr[1]["upload"]

\* C7: when Dump, Compress and Upload all succeeded and a removal of the
\* post-run cleanup failed, the job callback gets that cleanup error.
C7_CleanupFailureReported ==
  \A j \in Jobs :
    (cbCount[j] > 0 /\ AllSucceeded(j) /\ postErr[j] # NoErr) =>
      cbArg[j] = postErr[j]

\* C8: when the job callback is invoked, with no late fault and no failed
\* removal command, neither the scratch subdirectory nor the archive exists.
C8_NothingLeftAtCallback ==
  [][\A j \in Jobs :
       (cbCount'[j] # cbCount[j] /\ NoLateFault'
          /\ preErr'[j] = NoErr /\ postErr'[j] = NoErr) =>
         (BackupDir(j) \notin fs' /\ ArchivePath(j) \notin fs')]_vars

\* Dump wrote the scratch subdirectory, Compress wrote the archive, the
\* callback has been invoked and both are gone
C8_Witness ==
  /\ NoLateFault
  /\ cbCount[1] = 1
  /\ AllSucceeded(1)
  /\ preErr[1] = NoErr /\ postErr[1] = NoErr
  /\ BackupDir(1) \notin fs /\ ArchivePath(1) \notin fs

\* C9: the main series ends with an error only when Dump, Compress or Upload
\* failed: a failed pre-run removal neither keeps Dump from starting nor is
\* the err the series ends with.
C9_PreCleanBestEffort ==
  \A j \in Jobs :
    /\ pc[j] = "finished" => starts[j]["dump"] > 0
    /\ seriesErr[j] # NoErr => \E s \in Stages : seriesErr[j] = stageErr[j][s]

\* C10: for mongodump and tar the stage callback is invoked once per 'exit'
\* event, with no error exactly when the code is 0, and otherwise with an
\* error that carries the code.
C10_ExitCodeDecides ==
  \A j \in Jobs : \A s \in {"dump", "compress"} :
    /\ stageCbs[j][s] = exits[j][s]
    /\ exits[j][s] > 0 =>
         /\ stageErr[j][s] = NoErr <=> exitCode[j][s] = 0
         /\ exitCode[j][s] # 0 => stageErr[j][s].code = exitCode[j][s]

\* tar was killed by a signal: the code is null
C10_Witness ==
  /\ exits[1]["compress"] = 1
  /\ exitCode[1]["compress"] = NullCode
  /\ stageErr[1]["compress"] = Err("Tar exited with code ", NullCode)

\* ------------------------------------------- removeRF called directly
Last(q) == q[Len(q)]
SetLast(q, v) == [q EXCEPT ![Len(q)] = v]

\* removeRF(target, callback), lines 63-68: fs.exists is issued. A call is
\* made when the previous one has called back.
RfCall ==
  /\ rf.ph = "idle"
  /\ Len(rf.res) < MaxCalls
  /\ rf' = [rf EXCEPT !.ph = "exists",
                      !.existed = Append(@, rf.target \in fs),
                      !.cmds = Append(@, 0)]
  /\ UNCHANGED <<jobVars, fs, opts, argv>>

\* fs.exists callback, lines 68-74
RfExists ==
  /\ rf.ph = "exists"
  /\ IF NeedsRm(rf.target)
     THEN rf' = [rf EXCEPT !.ph = "rm", !.cmds = SetLast(@, Last(@) + 1)]
     ELSE rf' = [rf EXCEPT !.ph = "idle",
                           !.res = Append(@, NoErr),
                           !.fsAfter = Append(@, fs)]
  /\ UNCHANGED <<jobVars, fs, opts, argv>>

\* exec callback, line 73: callback(error)
RfRm ==
  /\ rf.ph = "rm"
  /\ \E ok \in BOOLEAN :
       /\ fs' = RmEffect(rf.target, ok)
       /\ rf' = [rf EXCEPT !.ph = "idle",
                           !.res = Append(@, RmResult(rf.target, ok)),
                           !.fsAfter = Append(@, fs')]
  /\ UNCHANGED <<jobVars, opts, argv>>

InitRemove ==
  /\ JobsIdle
  /\ fs \in SUBSET AllPaths
  /\ s3dest = "absent"
  /\ \E t \in AllPaths : rf = RfIdle(t)
  /\ opts = SomeOptions
  /\ argv = << >>

NextRemove == RfCall \/ RfExists \/ RfRm

SpecRemove == InitRemove /\ [][NextRemove]_vars

\* C11 as stated: a call on a missing path succeeds without an rm command,
\* and of two calls in a row the second succeeds and leaves the filesystem
\* as the first left it.
C11_RemoveIdempotent ==
  /\ \A n \in 1..Len(rf.res) :
       ~rf.existed[n] => rf.res[n] = NoErr /\ rf.cmds[n] = 0
  /\ \A n \in 2..Len(rf.res) :
       rf.res[n] = NoErr /\ rf.fsAfter[n] = rf.fsAfter[n - 1]

\* C11 amended: a call on a missing path succeeds without an rm command and
\* leaves the filesystem alone; a call that follows a call that succeeded
\* succeeds, issues no rm command and leaves the filesystem as that call
\* left it.
C11_RemoveIdempotentAfterSuccess ==
  /\ \A n \in 1..Len(rf.res) :
       ~rf.existed[n] => rf.res[n] = NoErr /\ rf.cmds[n] = 0
  /\ \A n \in 2..Len(rf.res) :
       rf.res[n - 1] = NoErr =>
         /\ rf.res[n] = NoErr
         /\ rf.cmds[n] = 0
         /\ rf.fsAfter[n] = rf.fsAfter[n - 1]
  /\ \A n \in 1..Len(rf.res) :
       rf.res[n] = NoErr => rf.target \notin rf.fsAfter[n]

\* the target existed, the first call removed it, the second found nothing
C11_Witness ==
  /\ Len(rf.res) = 2
  /\ rf.existed = <<TRUE, FALSE>>
  /\ rf.cmds = <<1, 0>>
  /\ rf.res = <<NoErr, NoErr>>

\* ------------------------------------------- mongoDump argument list
\* bug variant: the password pair is pushed before the username pair
CredentialArgsSwapped(o) ==
  IF Truthy(o.username) /\ Truthy(o.password)
  THEN <<"-p", o.password, "-u", o.username>>
  ELSE << >>

\* bug variant: `||` for `&&`, each credential that is there is pushed
CredentialArgsEither(o) ==
  (IF Truthy(o.username) THEN <<"-u", o.username>> ELSE << >>) \o
  (IF Truthy(o.password) THEN <<"-p", o.password>> ELSE << >>)

\* mongoDump lines 98-104
CredentialArgs(o) ==
  IF Truthy(o.username) /\ Truthy(o.password)
  THEN <<"-u", o.username, "-p", o.password>>
  ELSE << >>

\* mongoDump lines 106-109
AuthDbArgs(o) ==
  IF Truthy(o.authenticationDatabase)
  THEN <<"--authenticationDatabase", o.authenticationDatabase>>
  ELSE << >>

\* bug variant: the pairs are put in front of the earlier ones (unshift)
ExcludeArgsReversed(l) ==
  [i \in 1..(2 * Len(l)) |->
     IF i % 2 = 1 THEN "--excludeCollection"
     ELSE l[Len(l) + 1 - (i \div 2)]]

\* mongoDump lines 112-115: forEach pushes the flag and the collection
ExcludeArgs(l) ==
  [i \in 1..(2 * Len(l)) |->
     IF i % 2 = 1 THEN "--excludeCollection" ELSE l[i \div 2]]

\* mongoDump lines 92-96
BaseArgs(o, directory) ==
  <<"-h", o.host \o ":" \o o.port, "-d", o.db, "-o", directory>>

\* mongoOptions at line 119
MongoOptions(o, directory) ==
  BaseArgs(o, directory) \o CredentialArgs(o) \o AuthDbArgs(o) \o
  (IF o.excludeCollection.given
   THEN ExcludeArgs(o.excludeCollection.list) ELSE << >>)

\* mongoDump(options, directory, callback) up to spawn('mongodump', ...)
MongoDumpCall ==
  /\ argv = << >>
  /\ argv' = MongoOptions(opts, TmpDir)
  /\ UNCHANGED <<jobVars, fs, rf, opts>>

InitArgs ==
  /\ JobsIdle
  /\ fs = {}
  /\ s3dest = "absent"
  /\ rf = RfIdle(BackupDir(1))
  /\ opts \in MongoOptionSets
  /\ argv = << >>

NextArgs == MongoDumpCall

SpecArgs == InitArgs /\ [][NextArgs]_vars

Positions(flag) == {i \in 1..Len(argv) : argv[i] = flag}
HasPair(flag, value) ==
  \E i \in 1..(Len(argv) - 1) : argv[i] = flag /\ argv[i + 1] = value
Spawned == argv # << >>

\* C12: with neither username nor password (undefined or '') the argument
\* list has no -u and no -p; with both it has exactly one -u and one -p, as
\* -u, username, -p, password right after the six host, database and
\* output-directory arguments.
C12_CredentialFlags ==
  Spawned =>
    /\ SubSeq(argv, 1, 6) = BaseArgs(opts, TmpDir)
    /\ (~Truthy(opts.username) /\ ~Truthy(opts.password)) =>
         Positions("-u") = {} /\ Positions("-p") = {}
    /\ (Truthy(opts.username) /\ Truthy(opts.password)) =>
         /\ Len(argv) >= 10
         /\ SubSeq(argv, 7, 10) =
              <<"-u", opts.username, "-p", opts.password>>
         /\ Positions("-u") = {7} /\ Positions("-p") = {9}

C12_Witness ==
  /\ Spawned
  /\ opts.username = "alice" /\ opts.password = "s3cret"
  /\ HasPair("-u", "alice") /\ HasPair("-p", "s3cret")
  /\ opts.authenticationDatabase = "admin"
  /\ opts.excludeCollection.list # << >>

\* C13: the argument list ends with one --excludeCollection, name pair per
\* element of the list, in the order of the list, and has no other
\* --excludeCollection; with no list it has none.
C13_ExcludePairsInOrder ==
  Spawned =>
    LET l == opts.excludeCollection.list
        n == IF opts.excludeCollection.given THEN Len(l) ELSE 0
        from == Len(argv) - 2 * n
    IN /\ Cardinality(Positions("--excludeCollection")) = n
       /\ \A k \in 1..n :
            /\ argv[from + 2 * k - 1] = "--excludeCollection"
            /\ argv[from + 2 * k] = l[k]

C13_Witness ==
  /\ Spawned
  /\ opts.excludeCollection.list = <<"a", "b", "c">>
  /\ SubSeq(argv, Len(argv) - 5, Len(argv)) =
       <<"--excludeCollection", "a", "--excludeCollection", "b",
         "--excludeCollection", "c">>

ExactlyOneCredential ==
  Truthy(opts.username) # Truthy(opts.password)

\* C18 as stated: with exactly one of username and password, the one that was
\* supplied is in the argument list.
C18_LoneCredentialPassed ==
  (Spawned /\ ExactlyOneCredential) =>
    /\ Truthy(opts.username) => HasPair("-u", opts.username)
    /\ Truthy(opts.password) => HasPair("-p", opts.password)

\* C18 amended: with exactly one of username and password the call is not
\* refused (mongodump is spawned), and the argument list has no credential
\* flag at all: the lone credential is left out.
C18_LoneCredentialDropped ==
  ExactlyOneCredential =>
    /\ ~Spawned => ENABLED MongoDumpCall
    /\ Spawned =>
         /\ Positions("-u") = {} /\ Positions("-p") = {}
         /\ \A i \in 1..Len(argv) :
              argv[i] \notin {opts.username, opts.password} \ {Undefined, ""}

C18_Witness ==
  /\ Spawned
  /\ opts.username = "alice"
  /\ opts.password = Undefined
  /\ Positions("-u") = {}

\* ------------------------------------------------ more specifications
\* every spawned process exits, every fs.exists / exec callback is delivered
\* and the storage client calls the upload callback
LiveSpec ==
  /\ Spec
  /\ \A j \in SingleJob :
       /\ WF_vars(Cleaning(j))
       /\ WF_vars(DumpExit(j))
       /\ WF_vars(CompressExit(j))
       /\ WF_vars(UploadCallback(j))

\* sync is called more than once in the process with the same s3Config; all
\* calls share the module-level domain d. A call is made once the call
\* before it has reached its upload, so that it overlaps that call's upload
\* and cleanup, or follows it. At most one late fault is raised in the
\* process.
SyncAgain(j) ==
  /\ j > 1 => starts[j - 1]["upload"] > 0
  /\ Sync(j)

LateFaultOnce(j) ==
  /\ NoLateFault
  /\ LateFault(j)

StepMulti(j) ==
  \/ SyncAgain(j)
  \/ PreExists(j)
  \/ PreRm(j)
  \/ DumpExit(j)
  \/ CompressExit(j)
  \/ UploadCallback(j)
  \/ PostExists(j)
  \/ PostRm(j)
  \/ LateFaultOnce(j)
  \/ \E k \in 1..(NumJobs * MaxFaults) : BoundaryExists(j, k)
  \/ \E k \in 1..(NumJobs * MaxFaults) : BoundaryRm(j, k)

\* no stale files are left from an earlier process
InitMulti ==
  /\ JobsIdle
  /\ fs = {}
  /\ s3dest \in Destinations
  /\ CallsIdle

NextMulti == \E j \in Jobs : StepMulti(j)

SpecMulti == InitMulti /\ [][NextMulti]_vars

\* C14: an error is in the log with tag 'error' before it is propagated:
\* before it is the err of the job callback, and before it is rethrown by
\* the domain listener.
C14_LoggedBeforePropagated ==
  /\ \A j \in Jobs :
       (cbCount[j] > 0 /\ cbArg[j] # NoErr) => cbArg[j] \in errlog
  /\ crashed => thrown \in errlog

\* C15 as stated: every call of sync eventually invokes the job callback,
\* and never more than once.
C15_CallbackEventually ==
  /\ [](\A j \in Jobs : cbCount[j] <= 1)
  /\ \A j \in SingleJob : (pc[j] # "idle") ~> (cbCount[j] = 1)

\* C15 amended: the job callback is never invoked twice, is invoked only
\* when the main series and the post-run cleanup have ended, and every call
\* of sync in which no late fault is raised eventually invokes it.
C15_CallbackEventuallyUnlessFault ==
  /\ [](\A j \in Jobs : cbCount[j] <= 1)
  /\ [](\A j \in Jobs :
          cbCount[j] > 0 => pc[j] = "finished" /\ post[j] = "done")
  /\ \A j \in SingleJob :
       (pc[j] # "idle") ~> (cbCount[j] = 1 \/ ~NoLateFault)

C15_Witness ==
  /\ NoLateFault
  /\ cbCount[1] = 1
  /\ Failed(1, "compress")
  /\ post[1] = "done"
  /\ ~crashed

\* the post-run cleanup series of job j ended at its first function: rm -rf
\* of the scratch subdirectory failed, removeRF of the archive was not called
ArchiveRemovalSkipped(j) ==
  post[j] = "done" /\ postErr[j] = RmErr(BackupDir(j))

\* C16: a post-run cleanup pass that has ended has attempted the removal of
\* both paths: it never ends with the archive removal skipped.
C16_BothRemovalsAttempted ==
  \A j \in Jobs : ~ArchiveRemovalSkipped(j)

\* C17: each of Dump, Compress and Upload is started at most once in a call
\* of sync, also after it failed and after a late fault.
C17_StagesStartedOnce ==
  \A j \in Jobs : \A s \in Stages :
    /\ starts[j][s] <= 1
    /\ (Failed(j, s) \/ (s = "upload" /\ faults[j] # << >>)) =>
         starts[j][s] = 1

\* Upload failed, a late fault followed, the process is gone
C17_Witness ==
  /\ Failed(1, "upload")
  /\ faults[1] # << >>
  /\ crashed
  /\ starts[1]["upload"] = 1

\* C19: after a job has started its upload the destination prefix of the
\* s3Config object is still the one the job uploads under, and two jobs run
\* with the same object upload under the same prefix.
C19_ConfigUnchanged ==
  /\ \A j \in Jobs :
       starts[j]["upload"] > 0 => DestinationOf(s3dest) = usedDest[j]
  /\ \A j, h \in Jobs :
       (starts[j]["upload"] > 0 /\ starts[h]["upload"] > 0) =>
         usedDest[j] = usedDest[h]

\* C20: the domain listener of a call of sync runs only for late faults of
\* that call: job j has no more listener passes than late faults.
C20_ListenerOwnJobOnly ==
  \A j \in Jobs : Len(bnd[j]) <= Len(faults[j])

====
